---------------------------- MODULE Spec2Model ----------------------------
(***************************************************************************)
(* Arduino-CommandParser: the recall history (RoundArray), the escape      *)
(* sequence recognizer (StateMachine), the typed command parser            *)
(* (CommandParser) and the line editor (CommandLineHandler).               *)
(*                                                                         *)
(* A std::string is a sequence of byte values (ASCII codes).  Containers   *)
(* the code indexes from 0 (RoundArray::strs) are functions over 0..n-1.   *)
(* Writes to the Stream are output only and are not part of the state.     *)
(***************************************************************************)
EXTENDS Integers, Sequences, FiniteSets, TLC

VARIABLES array, stateMachine, id, parser, cells, cmd, cursor, response,
          call, hist, trace

vars == <<array, stateMachine, id, parser, cells, cmd, cursor, response,
          call, hist, trace>>

-----------------------------------------------------------------------------
(* Bytes *)

BS  == 8
TAB == 9
LF  == 10
CR  == 13
ESC == 27
SP  == 32
QUOTE == 34
LBRACKET == 91

\* std::string::npos; npos + 1 wraps to 0 in size_t arithmetic
npos == -1

\* the set " \n\r\t" the code trims with
TrimSet == {SP, LF, CR, TAB}

SetMax(S) == CHOOSE x \in S : \A y \in S : y <= x
SetMin(S) == CHOOSE x \in S : \A y \in S : x <= y

\* s.find_last_not_of(set): 0-based position, or npos
find_last_not_of(s, set) ==
    LET I == {i \in 1..Len(s) : s[i] \notin set}
    IN  IF I = {} THEN npos ELSE SetMax(I) - 1

\* s.find_first_not_of(set): 0-based position, or npos
find_first_not_of(s, set) ==
    LET I == {i \in 1..Len(s) : s[i] \notin set}
    IN  IF I = {} THEN npos ELSE SetMin(I) - 1

\* s.find_first_of(set): 0-based position, or npos
find_first_of(s, set) ==
    LET I == {i \in 1..Len(s) : s[i] \in set}
    IN  IF I = {} THEN npos ELSE SetMin(I) - 1

\* s.erase(pos): drops everything from 0-based pos on
erase_from(s, pos) == SubSeq(s, 1, pos)

\* s.erase(0, n): drops the first n bytes (all of them when n = npos)
erase_front(s, n) == IF n = npos \/ n >= Len(s) THEN <<>> ELSE SubSeq(s, n + 1, Len(s))

\* cmd.erase(cmd.find_last_not_of(" \n\r\t") + 1)
TrimRight(s) == erase_from(s, find_last_not_of(s, TrimSet) + 1)

-----------------------------------------------------------------------------
(* RoundArray *)

\* default capacity of a RoundArray
DefaultMaxSize == 10

RoundArray(max_size, block_if_empty) ==
    [strs |-> [i \in 0..(max_size - 1) |-> <<>>],
     index |-> 0, lookingIndex |-> 0,
     max_size |-> max_size, block_if_empty |-> block_if_empty]

\* (i + max_size - 1) % max_size
StepBackMutant(i, max_size) == IF i = 0 THEN 0 ELSE i - 1
StepBack(i, max_size) == (i + max_size - 1) % max_size

\* (i + max_size + 1) % max_size
StepForward(i, max_size) == (i + max_size + 1) % max_size

RoundArray_addMutant(ra, str) ==
    LET c == TrimRight(str)
    IN  IF ra.strs[StepBack(ra.index, ra.max_size)] = c
        THEN ra
        ELSE [ra EXCEPT !.strs[ra.index] = c,
                        !.index = (ra.index + 1) % ra.max_size]
RoundArray_add(ra, str) ==
    LET c == TrimRight(str)
    IN  IF ra.strs[StepBack(ra.index, ra.max_size)] = c
        THEN ra
        ELSE [ra EXCEPT !.strs[ra.index] = c,
                        !.index = (ra.index + 1) % ra.max_size,
                        !.lookingIndex = (ra.index + 1) % ra.max_size]

RoundArray_go_up(ra) ==
    LET l == StepBack(ra.lookingIndex, ra.max_size)
    IN  IF ra.strs[l] = <<>> /\ ra.block_if_empty
        THEN [ra EXCEPT !.lookingIndex = StepForward(l, ra.max_size)]
        ELSE [ra EXCEPT !.lookingIndex = l]

RoundArray_go_down(ra) ==
    LET l == StepForward(ra.lookingIndex, ra.max_size)
    IN  IF ra.strs[l] = <<>> /\ ra.block_if_empty
        THEN [ra EXCEPT !.lookingIndex = StepBack(l, ra.max_size)]
        ELSE [ra EXCEPT !.lookingIndex = l]

RoundArray_goto_last(ra) == [ra EXCEPT !.lookingIndex = ra.index]

\* the reference go_up and go_down return
Looking(ra) == ra.strs[ra.lookingIndex]

-----------------------------------------------------------------------------
(* Characters (<cctype>) *)

\* the byte at 0-based position pos of a C string; '\0' at and past its end
At(buf, pos) == IF pos >= 0 /\ pos < Len(buf) THEN buf[pos + 1] ELSE 0

isdigit(c) == c >= 48 /\ c <= 57
isupper(c) == c >= 65 /\ c <= 90
islower(c) == c >= 97 /\ c <= 122
isalpha(c) == isupper(c) \/ islower(c)
isspace(c) == (c >= 9 /\ c <= 13) \/ c = SP
tolower(c) == IF isupper(c) THEN c + 32 ELSE c

\* for (auto &c : s) c = tolower(c)
ToLowerStrMutant(s) == s
ToLowerStr(s) == [i \in 1..Len(s) |-> tolower(s[i])]

\* the letters of "abcdefghijklmnopqrstuvwxyzABCDEFGHIJKLMNOPQRTSUVWXYZ"
Letters == (97..122) \cup (65..90)

\* s.rfind(p, 0) == 0: s starts with p
StartsWith(s, p) == Len(p) <= Len(s) /\ SubSeq(s, 1, Len(p)) = p

-----------------------------------------------------------------------------
(* double.  A value is its sign s and, when finite, its magnitude n/d in    *)
(* lowest terms (zero keeps its sign); rounding is left out: a finite       *)
(* result is the exact quotient.  The right operand of every operation is   *)
(* a value strtod produced, so it is finite.                                *)

RECURSIVE GCD(_, _)
GCD(a, b) == IF b = 0 THEN a ELSE GCD(b, a % b)

RECURSIVE IPow(_, _)
IPow(b, e) == IF e = 0 THEN 1 ELSE b * IPow(b, e - 1)

Abs(x) == IF x < 0 THEN -x ELSE x

Fin(s, n, d) == LET g == GCD(n, d) IN [k |-> "fin", s |-> s, n |-> n \div g, d |-> d \div g]
Zero(s) == [k |-> "fin", s |-> s, n |-> 0, d |-> 1]
Inf(s)  == [k |-> "inf", s |-> s, n |-> 0, d |-> 0]
NaN     == [k |-> "nan", s |-> 1, n |-> 0, d |-> 0]
\* a positive value that is no quotient of integers (pow with a fractional exponent)
Irrational == [k |-> "irr", s |-> 1, n |-> 0, d |-> 0]
DInt(i) == Fin(IF i < 0 THEN -1 ELSE 1, Abs(i), 1)

IsZero(a) == a.k = "fin" /\ a.n = 0
DNeg(a) == IF a.k = "nan" THEN a ELSE [a EXCEPT !.s = -a.s]

\* a + b
DAdd(a, b) ==
    IF a.k = "nan" \/ b.k = "nan" THEN NaN
    ELSE IF a.k = "inf" THEN (IF b.k = "inf" /\ b.s # a.s THEN NaN ELSE a)
    ELSE IF b.k = "inf" THEN b
    ELSE LET num == a.s * a.n * b.d + b.s * b.n * a.d
         IN  IF num = 0
             THEN (IF IsZero(a) /\ IsZero(b) /\ a.s = -1 /\ b.s = -1 THEN Zero(-1) ELSE Zero(1))
             ELSE Fin(IF num < 0 THEN -1 ELSE 1, Abs(num), a.d * b.d)

\* a - b
DSub(a, b) == DAdd(a, DNeg(b))

\* a * b
DMul(a, b) ==
    IF a.k = "nan" \/ b.k = "nan" THEN NaN
    ELSE IF a.k = "inf" \/ b.k = "inf"
         THEN (IF IsZero(a) \/ IsZero(b) THEN NaN ELSE Inf(a.s * b.s))
    ELSE Fin(a.s * b.s, a.n * b.n, a.d * b.d)

\* a / b
DDiv(a, b) ==
    IF a.k = "nan" \/ b.k = "nan" THEN NaN
    ELSE IF a.k = "inf" THEN (IF b.k = "inf" THEN NaN ELSE Inf(a.s * b.s))
    ELSE IF b.k = "inf" THEN Zero(a.s * b.s)
    ELSE IF IsZero(b) THEN (IF IsZero(a) THEN NaN ELSE Inf(a.s * b.s))
    ELSE Fin(a.s * b.s, a.n * b.d, a.d * b.n)

\* fmod(a, b): a - b * trunc(a / b), with the sign of a
DFmod(a, b) ==
    IF a.k = "nan" \/ b.k = "nan" \/ a.k = "inf" \/ IsZero(b) THEN NaN
    ELSE IF b.k = "inf" \/ IsZero(a) THEN a
    ELSE LET q == (a.n * b.d) \div (a.d * b.n)
         IN  Fin(a.s, a.n * b.d - q * b.n * a.d, a.d * b.d)

\* pow(a, b)
DPow(a, b) ==
    IF IsZero(b) THEN DInt(1)
    ELSE IF a = DInt(1) THEN DInt(1)
    ELSE IF a.k = "nan" \/ b.k = "nan" THEN NaN
    ELSE IF b.k = "fin" /\ b.d = 1
         THEN LET e   == b.n
                  odd == e % 2 = 1
                  sg  == IF odd THEN a.s ELSE 1
              IN  IF IsZero(a) THEN (IF b.s < 0 THEN Inf(sg) ELSE Zero(sg))
                  ELSE IF a.k = "inf" THEN (IF b.s < 0 THEN Zero(sg) ELSE Inf(sg))
                  ELSE IF b.s < 0 THEN Fin(sg, IPow(a.d, e), IPow(a.n, e))
                  ELSE Fin(sg, IPow(a.n, e), IPow(a.d, e))
    ELSE IF a.k = "fin" /\ a.s < 0 /\ ~IsZero(a) /\ b.k = "fin" THEN NaN
    ELSE Irrational

\* the value of the digit string buf[from .. to-1] (0-based, to exclusive)
RECURSIVE DigitsValue(_, _, _)
DigitsValue(buf, from, to) ==
    IF to <= from THEN 0
    ELSE DigitsValue(buf, from, to - 1) * 10 + (At(buf, to - 1) - 48)

\* the first position >= pos of buf that holds no decimal digit
RECURSIVE SkipDigits(_, _)
SkipDigits(buf, pos) == IF isdigit(At(buf, pos)) THEN SkipDigits(buf, pos + 1) ELSE pos

\* the first position >= pos of buf that holds no white space
RECURSIVE SkipSpace(_, _)
SkipSpace(buf, pos) == IF isspace(At(buf, pos)) THEN SkipSpace(buf, pos + 1) ELSE pos

\* std::strtod(buf, &end) on decimal text: white space, an optional sign, digits with
\* an optional fraction.  end = 0 when no conversion is made.  (Exponents, hexadecimal
\* floats and the words inf and nan do not occur in the lines checked here.)
strtod(buf) ==
    LET p0   == SkipSpace(buf, 0)
        sgn  == IF At(buf, p0) = 45 THEN -1 ELSE 1
        p1   == IF At(buf, p0) \in {43, 45} THEN p0 + 1 ELSE p0
        p2   == SkipDigits(buf, p1)
        p3   == IF At(buf, p2) = 46 THEN SkipDigits(buf, p2 + 1) ELSE p2
        nint == p2 - p1
        nfra == IF At(buf, p2) = 46 THEN p3 - p2 - 1 ELSE 0
        \* "1." converts with end after the point, "." alone converts nothing
        e    == IF nint + nfra = 0 THEN 0 ELSE p3
        num  == DigitsValue(buf, p1, p2) * IPow(10, nfra) + DigitsValue(buf, p2 + 1, p2 + 1 + nfra)
    IN  IF e = 0 THEN [end |-> 0, value |-> Zero(1)]
        ELSE [end |-> e, value |-> Fin(sgn, num, IPow(10, nfra))]

-----------------------------------------------------------------------------
(* MathOP *)

ADD == 0
SUB == 1
MUL == 2
DIV == 3
MOD == 4
POW == 5
SET == 6
EMPTY == 7
MathOPCount == 8

\* "add", "sub", "mult", "div", "mod", "pow", "set", ""; mathOP_names[i] is at i + 1
mathOP_namesMutant ==
    << <<97, 100, 100>>, <<115, 117, 98>>, <<109, 117, 108, 116>>, <<109, 111, 100>>,
       <<100, 105, 118>>, <<112, 111, 119>>, <<115, 101, 116>>, <<>> >>
mathOP_names ==
    << <<97, 100, 100>>, <<115, 117, 98>>, <<109, 117, 108, 116>>, <<100, 105, 118>>,
       <<109, 111, 100>>, <<112, 111, 119>>, <<115, 101, 116>>, <<>> >>

stringToMathOPMutant(str) ==
    LET I == {i \in 0..(MathOPCount - 1) : str = mathOP_names[i + 1]}
    IN  IF I = {} THEN ADD ELSE SetMin(I)
stringToMathOP(str) ==
    LET I == {i \in 0..(MathOPCount - 1) : str = mathOP_names[i + 1]}
    IN  IF I = {} THEN MathOPCount ELSE SetMin(I)

-----------------------------------------------------------------------------
(* strToInt *)

\* the bits the model gives uint64_t and int64_t
IntBits == 8
UIntMax == IPow(2, IntBits) - 1
SIntMax == IPow(2, IntBits - 1) - 1
SIntMin == -IPow(2, IntBits - 1)

DigitOf(c, base) ==
    IF isdigit(c) THEN c - 48
    ELSE IF base = 16 /\ isalpha(c) THEN tolower(c) - 97 + 10
    ELSE -1

\* the digit loop: [ok, position, result]; ok is FALSE where the loop returns 0
RECURSIVE strToIntLoop(_, _, _, _, _)
strToIntLoop(buf, position, base, result, max_value) ==
    LET digit == DigitOf(At(buf, position), base)
    IN  IF digit < 0 \/ digit >= base
        THEN [ok |-> TRUE, position |-> position, result |-> result]
        ELSE IF result > (max_value - digit) \div base
        THEN [ok |-> FALSE, position |-> 0, result |-> 0]
        ELSE strToIntLoop(buf, position + 1, base, result * base + digit, max_value)

\* strToInt<T>(buf, &value, min_value, max_value): [bytesRead, value]
strToInt(buf, min_value, max_value) ==
    LET signed     == min_value < 0 /\ At(buf, 0) \in {43, 45}
        isNegative == signed /\ At(buf, 0) = 45
        p0         == IF signed THEN 1 ELSE 0
        prefixed   == At(buf, p0) = 48 /\ At(buf, p0 + 1) \in {98, 111, 120}
        base       == IF ~prefixed THEN 10
                      ELSE IF At(buf, p0 + 1) = 98 THEN 2
                      ELSE IF At(buf, p0 + 1) = 111 THEN 8
                      ELSE 16
        p1         == IF prefixed THEN p0 + 2 ELSE p0
        l          == strToIntLoop(buf, p1, base, 0, max_value)
        result     == IF isNegative THEN -l.result ELSE l.result
    IN  IF ~l.ok \/ result < min_value \/ result > max_value
        THEN [bytesRead |-> 0, value |-> 0]
        ELSE [bytesRead |-> l.position, value |-> result]

-----------------------------------------------------------------------------
(* CommandParser *)

\* Argument: the variant's alternative (tag) and its value: d for a double, n for a
\* uint64_t or an int64_t, s for a std::string.  Argument() holds a double 0.0.
ArgAbsent    == [present |-> FALSE, tag |-> "double", d |-> Zero(1), n |-> 0, s |-> <<>>]
ArgDouble(v) == [present |-> TRUE, tag |-> "double", d |-> v, n |-> 0, s |-> <<>>]
ArgUInt64(v) == [present |-> TRUE, tag |-> "uint64_t", d |-> Zero(1), n |-> v, s |-> <<>>]
ArgInt64(v)  == [present |-> TRUE, tag |-> "int64_t", d |-> Zero(1), n |-> v, s |-> <<>>]
ArgString(v) == [present |-> TRUE, tag |-> "string", d |-> Zero(1), n |-> 0, s |-> v]

\* Command and MathCommand; the description is only ever printed and is left out.
\* A MathCommand's value is the index in cells of the variable it is bound to.
Command(name, argTypes) == [name |-> name, argTypes |-> argTypes]
MathCommand(name, ref) == [name |-> name, value |-> ref]

\* parseString(buf, output): [readCount, output]
RECURSIVE parseStringLoop(_, _, _, _)
parseStringLoop(buf, readCount, isQuoted, output) ==
    IF At(buf, readCount) = 0 THEN [readCount |-> readCount, output |-> output]
    ELSE LET c == At(buf, readCount)
         IN  IF (isQuoted /\ c = QUOTE) \/ (~isQuoted /\ isspace(c))
             THEN [readCount |-> readCount + 1, output |-> output]
             ELSE parseStringLoop(buf, readCount + 1, isQuoted, Append(output, c))

parseString(buf) ==
    LET isQuoted == At(buf, 0) = QUOTE
    IN  parseStringLoop(buf, IF isQuoted THEN 1 ELSE 0, isQuoted, <<>>)

\* the characters registerCommand accepts in argTypes: d, u, i, s, o
TypeCodes == {100, 117, 105, 115, 111}

\* registerCommand: [ret, parser]
registerCommandMutant(p, name, argTypes) ==
    IF argTypes # <<>> /\ argTypes[1] \notin TypeCodes
    THEN [ret |-> FALSE, parser |-> p]
    ELSE [ret |-> TRUE,
          parser |-> [p EXCEPT !.commandDefinitions =
                                   Append(@, Command(ToLowerStr(name), argTypes))]]
registerCommand(p, name, argTypes) ==
    IF \E k \in 1..Len(argTypes) : argTypes[k] \notin TypeCodes
    THEN [ret |-> FALSE, parser |-> p]
    ELSE [ret |-> TRUE,
          parser |-> [p EXCEPT !.commandDefinitions =
                                   Append(@, Command(ToLowerStr(name), argTypes))]]

\* registerMathCommand: [ret, parser]
registerMathCommand(p, name, ref) ==
    [ret |-> TRUE,
     parser |-> [p EXCEPT !.mathCommandDefinition =
                              Append(@, MathCommand(ToLowerStr(name), ref))]]

\* std::find_if over the definitions by name: 1-based position of the first match, 0 for end()
FindByName(defs, name) ==
    LET I == {k \in 1..Len(defs) : defs[k].name = name}
    IN  IF I = {} THEN 0 ELSE SetMin(I)

\* callRemoveOn(c, a) with a the test "a.name == name": [ret, c]; the first match is erased
callRemoveOn(defs, name) ==
    LET k == FindByName(defs, name)
    IN  IF k # 0
        THEN [ret |-> TRUE, c |-> SubSeq(defs, 1, k - 1) \o SubSeq(defs, k + 1, Len(defs))]
        ELSE [ret |-> FALSE, c |-> defs]

\* removeCommand: [ret, parser]
removeCommand(p, name) ==
    LET r == callRemoveOn(p.commandDefinitions, ToLowerStr(name))
    IN  [ret |-> r.ret, parser |-> [p EXCEPT !.commandDefinitions = r.c]]

\* removeMathCommand: [ret, parser]
removeMathCommand(p, name) ==
    LET r == callRemoveOn(p.mathCommandDefinition, ToLowerStr(name))
    IN  [ret |-> r.ret, parser |-> [p EXCEPT !.mathCommandDefinition = r.c]]

\* DoubleRefImpl<T>: a bound variable is [T, v]; T is "double" or "int16_t"
\* the limits of T = int16_t
IntMax == 32767
IntMin == -32768

DoubleRef_get(cell) == cell.v

\* d truncated toward zero
Trunc(d) == Fin(d.s, d.n \div d.d, 1)

\* static_cast<T>(value): the values the conversion can give.  To int, a value that is
\* not finite or is out of range is undefined; the builds saturate or give the minimum or 0.
static_castMutant(T, value) == {value}
static_cast(T, value) ==
    IF T = "double" THEN {value}
    ELSE IF /\ value.k = "fin"
            /\ value.s * (value.n \div value.d) >= IntMin
            /\ value.s * (value.n \div value.d) <= IntMax
    THEN {IF value.n \div value.d = 0 THEN Zero(1) ELSE Trunc(value)}
    ELSE {DInt(IntMin), DInt(IntMax), Zero(1)}

\* DoubleRefImpl<T>::set: the cells it can leave
DoubleRef_set(cell, value) == {[cell EXCEPT !.v = r] : r \in static_cast(cell.T, value)}

\* what the callbacks return: their bodies are the application's; each returns a
\* text of its own, here the command's name.  An invocation is recorded as
\* [kind, name, args, value, op].
Response(msg) == [msg |-> msg, ext |-> <<>>]
CommandCallback(name, args) == [msg |-> "command callback", ext |-> name]
MathCallback(name, value, op) == [msg |-> "math callback", ext |-> name]
CommandCall(name, args) ==
    [kind |-> "command", name |-> name, args |-> args, value |-> Zero(1), op |-> MathOPCount]
MathCall(name, value, op) ==
    [kind |-> "math", name |-> name, args |-> <<>>, value |-> value, op |-> op]

\* an outcome of processCommand: what it returns, the response, the parser and the
\* bound variables it leaves, and the callbacks it invoked
Outcome(ret, resp, p, cl, log) ==
    [ret |-> ret, response |-> resp, parser |-> p, cells |-> cl, log |-> log]

\* the switch over mathOp (lines 408-448): the value handed to set
MathApply(mathOp, cur, value) ==
    CASE mathOp = ADD -> DAdd(cur, value)
      [] mathOp = SUB -> DSub(cur, value)
      [] mathOp = MUL -> DMul(cur, value)
      [] mathOp = DIV -> DDiv(cur, value)
      [] mathOp = MOD -> DFmod(cur, value)
      [] mathOp = POW -> DPow(cur, value)
      [] mathOp = SET -> value

\* processCommand when the name is no Command (lines 379-450)
processMathCommand(p, cl, name, command0) ==
    LET im == FindByName(p.mathCommandDefinition, name)
    IN  IF im = 0 THEN {Outcome(FALSE, Response("Error: Unknown command."), p, cl, <<>>)}
        ELSE
        LET it_math == p.mathCommandDefinition[im]
            cell    == cl[it_math.value]
            command == TrimRight(command0)
            e_c_p   == find_first_of(command, {SP})
            math_command == SubSeq(command, 1, e_c_p)
            rest    == erase_front(command, e_c_p + 1)
            r       == strtod(rest)
            mathOp  == stringToMathOP(math_command)
        IN  IF command = <<>>
            THEN {Outcome(TRUE, MathCallback(it_math.name, DoubleRef_get(cell), EMPTY), p, cl,
                          <<MathCall(it_math.name, DoubleRef_get(cell), EMPTY)>>)}
            ELSE IF e_c_p = npos
            THEN {Outcome(FALSE, Response("Error: Invalid math command please add value."),
                          p, cl, <<>>)}
            ELSE IF r.end = 0
            THEN {Outcome(FALSE, Response("Error: Invalid double argument."), p, cl, <<>>)}
            ELSE IF mathOp \notin {ADD, SUB, MUL, DIV, MOD, POW, SET}
            THEN {Outcome(FALSE, [msg |-> "Unknown operator ! ", ext |-> math_command],
                          p, cl, <<>>)}
            ELSE {Outcome(TRUE, MathCallback(it_math.name, DoubleRef_get(c2), mathOp), p,
                          [cl EXCEPT ![it_math.value] = c2],
                          <<MathCall(it_math.name, DoubleRef_get(c2), mathOp)>>) :
                     c2 \in DoubleRef_set(cell, MathApply(mathOp, DoubleRef_get(cell), r.value))}

\* one turn of the loop over argTypes (lines 457-543).  st is [command, optional, done,
\* args, response, returned]: returned is set where the code returns false.
ArgFail(st, msg) ==
    IF st.optional
    THEN [st EXCEPT !.response = Response(msg), !.done = TRUE, !.args = Append(@, ArgAbsent)]
    ELSE [st EXCEPT !.response = Response(msg), !.returned = TRUE]

\* erase(0, bytesRead), then one more byte if any is left
EraseTokenMutant(command, bytesRead) ==
    LET c == erase_front(command, bytesRead) IN c
EraseToken(command, bytesRead) ==
    LET c == erase_front(command, bytesRead)
    IN  IF Len(c) > 0 THEN erase_front(c, 1) ELSE c

ArgStep(st, argType) ==
    IF st.returned THEN st
    ELSE IF st.done
    THEN (IF argType # 111 THEN [st EXCEPT !.args = Append(@, ArgAbsent)] ELSE st)
    ELSE CASE argType = 100 ->
                LET r == strtod(st.command)
                IN  IF r.end = 0 THEN ArgFail(st, "Error: Invalid double argument.")
                    ELSE [st EXCEPT !.args = Append(@, ArgDouble(r.value)),
                                    !.command = erase_front(@, r.end)]
           [] argType = 117 ->
                LET r == strToInt(st.command, 0, UIntMax)
                IN  IF r.bytesRead = 0
                    THEN ArgFail(st, "Error: Invalid unsigned integer argument.")
                    ELSE [st EXCEPT !.args = Append(@, ArgUInt64(r.value)),
                                    !.command = EraseToken(@, r.bytesRead)]
           [] argType = 105 ->
                LET r == strToInt(st.command, SIntMin, SIntMax)
                IN  IF r.bytesRead = 0 THEN ArgFail(st, "Error: Invalid integer argument.")
                    ELSE [st EXCEPT !.args = Append(@, ArgInt64(r.value)),
                                    !.command = EraseToken(@, r.bytesRead)]
           [] argType = 115 ->
                LET r == parseString(st.command)
                IN  IF r.readCount = 0 THEN ArgFail(st, "Error: Invalid string argument.")
                    ELSE [st EXCEPT !.args = Append(@, ArgString(r.output)),
                                    !.command = erase_front(@, r.readCount)]
           [] argType = 111 -> [st EXCEPT !.optional = TRUE]
           [] OTHER -> [st EXCEPT !.args = Append(@, ArgAbsent)]

RECURSIVE ArgLoop(_, _, _)
ArgLoop(st, argTypes, k) ==
    IF k > Len(argTypes) THEN st ELSE ArgLoop(ArgStep(st, argTypes[k]), argTypes, k + 1)

\* processCommand when the name is a Command (lines 453-551)
processTypedCommandMutant(p, cl, it, command, resp0) ==
    LET st == ArgLoop([command |-> command, optional |-> FALSE, done |-> FALSE,
                       args |-> <<>>, response |-> resp0, returned |-> FALSE],
                      it.argTypes, 1)
        p2   == [p EXCEPT !.commandArgs = st.args]
    IN  IF st.returned THEN {Outcome(FALSE, st.response, p2, cl, <<>>)}
        ELSE {Outcome(TRUE, CommandCallback(it.name, st.args), p2, cl,
                      <<CommandCall(it.name, st.args)>>)}
processTypedCommand(p, cl, it, command, resp0) ==
    LET st == ArgLoop([command |-> command, optional |-> FALSE, done |-> FALSE,
                       args |-> <<>>, response |-> resp0, returned |-> FALSE],
                      it.argTypes, 1)
        p2   == [p EXCEPT !.commandArgs = st.args]
        tail == erase_front(st.command, find_first_not_of(st.command, {SP, TAB}))
    IN  IF st.returned THEN {Outcome(FALSE, st.response, p2, cl, <<>>)}
        ELSE IF tail # <<>>
        THEN {Outcome(FALSE, Response("Error: Too many arguments provided."), p2, cl, <<>>)}
        ELSE {Outcome(TRUE, CommandCallback(it.name, st.args), p2, cl,
                      <<CommandCall(it.name, st.args)>>)}

\* the name and the argument tail processCommand splits the line into (lines 355-371)
SplitLine(commandStr) ==
    LET c1 == TrimRight(ToLowerStr(commandStr))
        c2 == erase_front(c1, find_first_of(c1, Letters))
        empty_char_pos == find_first_of(c2, {SP})
        name == IF empty_char_pos = npos THEN c2 ELSE SubSeq(c2, 1, empty_char_pos)
        c3 == IF empty_char_pos = npos THEN <<>> ELSE erase_front(c2, empty_char_pos + 1)
        pos == find_first_not_of(c3, TrimSet)
    IN  [name |-> name,
         command |-> IF pos # 0 /\ pos # npos THEN erase_front(c3, pos) ELSE c3]

\* processCommand(commandStr, response, stream): its outcomes; resp0 is the response
\* the caller passed in
processCommandMutant(p, cl, commandStr, resp0) ==
    LET sp == SplitLine(commandStr)
        it == FindByName(p.commandDefinitions, sp.name)
    IN  IF FindByName(p.mathCommandDefinition, sp.name) # 0 \/ it = 0
        THEN processMathCommand(p, cl, sp.name, sp.command)
        ELSE processTypedCommand(p, cl, p.commandDefinitions[it], sp.command, resp0)
processCommand(p, cl, commandStr, resp0) ==
    LET sp == SplitLine(commandStr)
        it == FindByName(p.commandDefinitions, sp.name)
    IN  IF it = 0 THEN processMathCommand(p, cl, sp.name, sp.command)
        ELSE processTypedCommand(p, cl, p.commandDefinitions[it], sp.command, resp0)

-----------------------------------------------------------------------------
(* StateMachine *)

UP_LAST_CHAR == 65
DOWN_LAST_CHAR == 66
RIGHT_LAST_CHAR == 67
LEFT_LAST_CHAR == 68

\* the letters the CommandLineHandler binds a function to (functions[c - 'A'] is set)
BoundLetters == {UP_LAST_CHAR, DOWN_LAST_CHAR, LEFT_LAST_CHAR, RIGHT_LAST_CHAR}

StateMachine_begin(sm) == [started |-> TRUE, chars |-> <<>>]

\* append(c): the machine it leaves, the bytes it returns, and the letters whose bound
\* function it called (fired)
StateMachine_appendMutant(sm, c) ==
    IF sm.chars = <<>> /\ c = LBRACKET
    THEN [sm |-> [sm EXCEPT !.chars = <<c>>], result |-> <<>>, fired |-> <<>>]
    ELSE [sm |-> [started |-> FALSE, chars |-> <<>>],
          result |-> sm.chars,
          fired |-> IF /\ Len(sm.chars) = 1 /\ sm.chars[1] = LBRACKET
                       /\ c >= 65 /\ c <= 90 /\ c \in BoundLetters
                    THEN <<c>> ELSE <<>>]
StateMachine_append(sm, c) ==
    IF sm.chars = <<>> /\ c = LBRACKET
    THEN [sm |-> [sm EXCEPT !.chars = <<c>>], result |-> <<>>, fired |-> <<>>]
    ELSE LET letter == Len(sm.chars) = 1 /\ sm.chars[1] = LBRACKET /\ c >= 65 /\ c <= 90
         IN  [sm |-> [started |-> FALSE, chars |-> <<>>],
              result |-> IF letter THEN <<>> ELSE sm.chars,
              fired |-> IF letter /\ c \in BoundLetters THEN <<c>> ELSE <<>>]

-----------------------------------------------------------------------------
(* tab_complete and longestCommonPrefix *)

\* the names of defs that start with p, in order, each followed by suffix
RECURSIVE MatchingNames(_, _, _, _)
MatchingNames(defs, p, suffix, k) ==
    IF k > Len(defs) THEN <<>>
    ELSE (IF StartsWith(defs[k].name, p) THEN <<defs[k].name \o suffix>> ELSE <<>>)
             \o MatchingNames(defs, p, suffix, k + 1)

\* name + " " + verb for the verbs (the empty one apart) that start with p, in order
RECURSIVE MatchingVerbs(_, _, _)
MatchingVerbs(name, p, k) ==
    IF k > MathOPCount THEN <<>>
    ELSE (IF mathOP_names[k] # <<>> /\ StartsWith(mathOP_names[k], p)
          THEN <<name \o <<SP>> \o mathOP_names[k]>> ELSE <<>>)
             \o MatchingVerbs(name, p, k + 1)

\* the completions of "name partial-verb" (lines 325-349)
VerbCompletions(p, command0) ==
    LET of == find_first_of(command0, Letters)
        c1 == erase_front(command0, of)
        empty_char_pos == find_first_of(c1, {SP})
        name == SubSeq(c1, 1, empty_char_pos)
        c2 == erase_front(c1, empty_char_pos)
        c3 == erase_front(c2, find_first_not_of(c2, TrimSet))
        im == FindByName(p.mathCommandDefinition, name)
    IN  IF of = npos \/ empty_char_pos = npos \/ im = 0 THEN <<>>
        ELSE MatchingVerbs(p.mathCommandDefinition[im].name, c3, 1)

\* tab_complete(cmd): argsStrings (descriptions has one entry for each)
tab_completeMutant(p, str) ==
    LET lower == ToLowerStr(str)
        direct == MatchingNames(p.commandDefinitions, lower, <<>>, 1)
                      \o MatchingNames(p.mathCommandDefinition, lower, <<>>, 1)
    IN  IF direct # <<>> THEN direct ELSE VerbCompletions(p, lower)
tab_complete(p, str) ==
    LET lower == ToLowerStr(str)
        direct == MatchingNames(p.commandDefinitions, lower, <<>>, 1)
                      \o MatchingNames(p.mathCommandDefinition, lower, <<SP>>, 1)
    IN  IF direct # <<>> THEN direct ELSE VerbCompletions(p, lower)

\* the length of the common prefix of a and b
RECURSIVE CommonLen(_, _, _)
CommonLen(a, b, j) ==
    IF j < Len(a) /\ j < Len(b) /\ a[j + 1] = b[j + 1] THEN CommonLen(a, b, j + 1) ELSE j

RECURSIVE lcpLoop(_, _, _)
lcpLoop(prefix, strs, i) ==
    IF i > Len(strs) THEN prefix
    ELSE LET q == SubSeq(prefix, 1, CommonLen(prefix, strs[i], 0))
         IN  IF q = <<>> THEN q ELSE lcpLoop(q, strs, i + 1)

longestCommonPrefixMutant(strs) == IF strs = <<>> THEN <<>> ELSE strs[1]
longestCommonPrefix(strs) == IF strs = <<>> THEN <<>> ELSE lcpLoop(strs[1], strs, 2)

-----------------------------------------------------------------------------
(* CommandLineHandler.  An editor is [cmd, cursor, array]: what the arrow   *)
(* key functions and the key handlers work on.                              *)

TERMINAL_END_LINE_WITH_LINE_FEED == 1
TERMINAL_END_LINE_WITH_CARRIAGE_RETURN == 2
TERMINAL_END_LINE_WITH_BOTH == 3

\* setCommand(a)
setCommandMutant(ed, a) == [ed EXCEPT !.cmd = a, !.cursor = Len(a)]
setCommand(ed, a) == IF a # <<>> THEN [ed EXCEPT !.cmd = a, !.cursor = Len(a)] ELSE ed

\* the functions the constructor binds to A, B, C and D (lines 618-635)
BoundFunction(letter, ed) ==
    CASE letter = UP_LAST_CHAR ->
            LET ra == RoundArray_go_up(ed.array)
            IN  setCommand([ed EXCEPT !.array = ra], Looking(ra))
      [] letter = DOWN_LAST_CHAR ->
            LET ra == RoundArray_go_down(ed.array)
            IN  setCommand([ed EXCEPT !.array = ra], Looking(ra))
      [] letter = LEFT_LAST_CHAR ->
            IF ed.cursor > 0 THEN [ed EXCEPT !.cursor = @ - 1] ELSE ed
      [] letter = RIGHT_LAST_CHAR ->
            IF ed.cursor < Len(ed.cmd) THEN [ed EXCEPT !.cursor = @ + 1] ELSE ed
      [] OTHER -> ed

RECURSIVE RunFired(_, _, _)
RunFired(fired, ed, k) ==
    IF k > Len(fired) THEN ed ELSE RunFired(fired, BoundFunction(fired[k], ed), k + 1)

\* cmd.erase(cmd.begin() + cursor - 1): the byte before the cursor goes
EraseAt(str, pos) == SubSeq(str, 1, pos - 1) \o SubSeq(str, pos + 1, Len(str))

\* cmd.insert(cmd.begin() + cursor, c)
InsertAt(str, pos, c) == SubSeq(str, 1, pos) \o <<c>> \o SubSeq(str, pos + 1, Len(str))

\* c == 8 (lines 655-663)
BackspaceMutant(ed) ==
    IF ed.cmd # <<>> /\ ed.cursor > 0
    THEN [ed EXCEPT !.cmd = EraseAt(@, ed.cursor)]
    ELSE ed
Backspace(ed) ==
    IF ed.cmd # <<>> /\ ed.cursor > 0
    THEN [ed EXCEPT !.cmd = EraseAt(@, ed.cursor), !.cursor = @ - 1]
    ELSE ed

\* c == 9 (lines 664-683)
Tab(ed, p) ==
    LET commandNames == tab_complete(p, ed.cmd)
    IN  IF commandNames = <<>> THEN ed
        ELSE IF Len(commandNames) = 1
        THEN [ed EXCEPT !.cmd = commandNames[1], !.cursor = Len(commandNames[1])]
        ELSE [ed EXCEPT !.cmd = longestCommonPrefix(commandNames),
                        !.cursor = Len(longestCommonPrefix(commandNames))]

\* the terminal identification of lines 685-702: [id, skip]; skip is the continue
IdentifyMutant(t, c) ==
    IF t.identifying
    THEN IF c = LF
         THEN [id |-> [type |-> TERMINAL_END_LINE_WITH_BOTH, identified |-> TRUE,
                       identifying |-> FALSE], skip |-> TRUE]
         ELSE [id |-> [type |-> TERMINAL_END_LINE_WITH_CARRIAGE_RETURN, identified |-> TRUE,
                       identifying |-> FALSE], skip |-> FALSE]
    ELSE IF c = LF
    THEN [id |-> [type |-> TERMINAL_END_LINE_WITH_LINE_FEED, identified |-> TRUE,
                  identifying |-> FALSE], skip |-> FALSE]
    ELSE [id |-> t, skip |-> FALSE]
Identify(t, c) ==
    IF t.identifying
    THEN IF c = LF
         THEN [id |-> [type |-> TERMINAL_END_LINE_WITH_BOTH, identified |-> TRUE,
                       identifying |-> FALSE], skip |-> TRUE]
         ELSE [id |-> [type |-> TERMINAL_END_LINE_WITH_CARRIAGE_RETURN, identified |-> TRUE,
                       identifying |-> FALSE], skip |-> FALSE]
    ELSE IF ~t.identified /\ c = LF
    THEN [id |-> [type |-> TERMINAL_END_LINE_WITH_LINE_FEED, identified |-> TRUE,
                  identifying |-> FALSE], skip |-> FALSE]
    ELSE [id |-> t, skip |-> FALSE]

\* lines 703-714: the byte goes in at the cursor, which advances
Insert(ed, c) ==
    IF ed.cursor = Len(ed.cmd)
    THEN [ed EXCEPT !.cmd = Append(@, c), !.cursor = @ + 1]
    ELSE [ed EXCEPT !.cmd = InsertAt(@, ed.cursor, c), !.cursor = @ + 1]

\* the condition of line 718
SubmitsMutant(t, c) ==
    \/ (c = CR /\ ~t.identified)
    \/ (c = CR /\ (t.type = TERMINAL_END_LINE_WITH_CARRIAGE_RETURN
                     \/ t.type = TERMINAL_END_LINE_WITH_BOTH))
    \/ (c = LF /\ t.type = TERMINAL_END_LINE_WITH_LINE_FEED)
Submits(t, c) ==
    \/ (c = CR /\ ~t.identified)
    \/ (c = CR /\ t.type = TERMINAL_END_LINE_WITH_CARRIAGE_RETURN)
    \/ (c = LF /\ (t.type = TERMINAL_END_LINE_WITH_LINE_FEED
                     \/ t.type = TERMINAL_END_LINE_WITH_BOTH))

\* what one turn of the loop of handle_commandline did with its byte c: the edit buffer
\* it found (cmd0), the letters whose function the StateMachine called, the bytes append
\* returned, the branch taken ("begin", "consumed", "backspace", "tab", "skip", "insert")
\* and the lines submitted
Info(c, cmd0, fired, pass, branch, submitted) ==
    [c |-> c, cmd0 |-> cmd0, fired |-> fired, pass |-> pass, branch |-> branch,
     submitted |-> submitted]

\* lines 718-735 when the condition holds: the states the submission can leave
Submit(h, ed, t, info) ==
    {[h EXCEPT !.cmd = <<>>, !.cursor = 0,
               !.array = RoundArray_add(ed.array, ed.cmd),
               !.id = IF ~t.identified THEN [t EXCEPT !.identifying = TRUE] ELSE t,
               !.parser = o.parser, !.cells = o.cells, !.response = o.response,
               !.info = [info EXCEPT !.submitted = <<ed.cmd>>]] :
        o \in processCommand(h.parser, h.cells, ed.cmd, h.response)}

\* lines 655-735: the byte c reaches the key handlers; ed is the editor the bound
\* functions left
Keys(h, ed, c, info) ==
    IF c = BS
    THEN LET e2 == Backspace(ed)
         IN  {[h EXCEPT !.cmd = e2.cmd, !.cursor = e2.cursor, !.array = e2.array,
                        !.info = [info EXCEPT !.branch = "backspace"]]}
    ELSE IF c = TAB
    THEN LET e2 == Tab(ed, h.parser)
         IN  {[h EXCEPT !.cmd = e2.cmd, !.cursor = e2.cursor, !.array = e2.array,
                        !.info = [info EXCEPT !.branch = "tab"]]}
    ELSE LET r == Identify(h.id, c)
         IN  IF r.skip
             THEN {[h EXCEPT !.cmd = ed.cmd, !.cursor = ed.cursor, !.array = ed.array,
                             !.id = r.id, !.info = [info EXCEPT !.branch = "skip"]]}
             ELSE LET e2 == Insert(ed, c)
                      h2 == [h EXCEPT !.cmd = e2.cmd, !.cursor = e2.cursor,
                                      !.array = e2.array, !.id = r.id,
                                      !.info = [info EXCEPT !.branch = "insert"]]
                  IN  IF Submits(r.id, c) THEN Submit(h2, e2, r.id, h2.info) ELSE {h2}

\* one turn of the loop of handle_commandline (lines 642-736) on the byte c.  h is the
\* CommandLineHandler with the parser and the bound variables: [cmd, cursor, array,
\* stateMachine, id, parser, cells, response, info]
handle_byte(h, c) ==
    IF c = ESC
    THEN {[h EXCEPT !.stateMachine = StateMachine_begin(h.stateMachine),
                    !.info = Info(c, h.cmd, <<>>, <<>>, "begin", <<>>)]}
    ELSE IF h.stateMachine.started
    THEN LET a  == StateMachine_append(h.stateMachine, c)
             ed == RunFired(a.fired, [cmd |-> h.cmd, cursor |-> h.cursor, array |-> h.array], 1)
             h1 == [h EXCEPT !.stateMachine = a.sm]
         IN  IF a.result = <<>>
             THEN {[h1 EXCEPT !.cmd = ed.cmd, !.cursor = ed.cursor, !.array = ed.array,
                              !.info = Info(c, h.cmd, a.fired, a.result, "consumed", <<>>)]}
             ELSE Keys(h1, ed, c, Info(c, h.cmd, a.fired, a.result, "", <<>>))
    ELSE Keys(h, [cmd |-> h.cmd, cursor |-> h.cursor, array |-> h.array], c,
              Info(c, h.cmd, <<>>, <<>>, "", <<>>))

-----------------------------------------------------------------------------
(* Values the parts of the state take while a specification leaves them    *)
(* alone                                                                   *)

NoCall == [op |-> "none"]
NoHist == [recent |-> <<>>, ups |-> <<>>, pure |-> TRUE, clean |-> TRUE,
           lastWritten |-> <<>>]
IdleStateMachine == [started |-> FALSE, chars |-> <<>>]
UnknownTerminal == [type |-> 0, identified |-> FALSE, identifying |-> FALSE]
EmptyParser == [commandArgs |-> <<>>, commandDefinitions |-> <<>>,
                mathCommandDefinition |-> <<>>]
NoResponse == [msg |-> "", ext |-> <<>>]

-----------------------------------------------------------------------------
(* HistSpec: a RoundArray driven through its public methods.               *)
(* hist observes the calls: recent holds the texts the latest add calls    *)
(* were given, trimmed (at most max_size of them), ups the results of the  *)
(* go_up calls made since the last add (pure: nothing but go_up was called *)
(* since), clean whether every add so far had a non-blank text different   *)
(* from the one before, lastWritten the text the last writing add stored.  *)

\* the largest capacity a RoundArray is constructed with
MaxCap == 3

\* the lines add is called with: "a", "b", "c", "a " and " "
HistLines == {<<97>>, <<98>>, <<99>>, <<97, SP>>, <<SP>>}

Last(s) == s[Len(s)]

KeepLast(s, n) == IF Len(s) <= n THEN s ELSE SubSeq(s, Len(s) - n + 1, Len(s))

HistInit ==
    /\ \E n \in 1..MaxCap, b \in BOOLEAN : array = RoundArray(n, b)
    /\ stateMachine = IdleStateMachine
    /\ id = UnknownTerminal
    /\ parser = EmptyParser
    /\ cells = <<>>
    /\ cmd = <<>>
    /\ cursor = 0
    /\ response = NoResponse
    /\ call = NoCall
    /\ hist = NoHist
    /\ trace = <<>>

HistFrame == UNCHANGED <<stateMachine, id, parser, cells, cmd, cursor, response, trace>>

add(str) ==
    /\ array' = RoundArray_add(array, str)
    /\ call' = [op |-> "add", arg |-> str]
    /\ hist' = [recent |-> KeepLast(Append(hist.recent, TrimRight(str)), array.max_size),
                ups |-> <<>>,
                pure |-> TRUE,
                clean |-> /\ hist.clean
                          /\ TrimRight(str) # <<>>
                          /\ (hist.recent # <<>> => Last(hist.recent) # TrimRight(str)),
                lastWritten |-> IF array' = array THEN hist.lastWritten
                                ELSE array'.strs[array.index]]
    /\ HistFrame

go_up ==
    /\ array' = RoundArray_go_up(array)
    /\ call' = [op |-> "go_up", ret |-> Looking(array')]
    /\ hist' = IF hist.pure /\ Len(hist.ups) < array.max_size
               THEN [hist EXCEPT !.ups = Append(hist.ups, Looking(array'))]
               ELSE [hist EXCEPT !.ups = <<>>, !.pure = FALSE]
    /\ HistFrame

go_down ==
    /\ array' = RoundArray_go_down(array)
    /\ call' = [op |-> "go_down", ret |-> Looking(array')]
    /\ hist' = [hist EXCEPT !.ups = <<>>, !.pure = FALSE]
    /\ HistFrame

goto_last ==
    /\ array' = RoundArray_goto_last(array)
    /\ call' = [op |-> "goto_last"]
    /\ hist' = [hist EXCEPT !.ups = <<>>, !.pure = FALSE]
    /\ HistFrame

HistNext ==
    \/ \E str \in HistLines : add(str)
    \/ go_up
    \/ go_down
    \/ goto_last

HistSpec == HistInit /\ [][HistNext]_vars

\* C5: after m >= 1 adds of non-blank lines, no two consecutive ones equal, k <= min(m, N)
\* consecutive go_up calls return the k most recently added lines, newest first.
C5_RecallNewestFirst ==
    (hist.clean /\ hist.pure /\ Len(hist.ups) >= 1 /\ Len(hist.ups) <= Len(hist.recent))
        => \A j \in 1..Len(hist.ups) :
               hist.ups[j] = hist.recent[Len(hist.recent) - j + 1]

\* capacity 3 with a, b, c, a added: three go_up calls gave a, c, b
C5_Witness ==
    /\ array.max_size = 3
    /\ hist.clean /\ hist.pure
    /\ hist.recent = << <<98>>, <<99>>, <<97>> >>
    /\ array.strs[0] = <<97>>
    /\ hist.ups = << <<97>>, <<99>>, <<98>> >>

\* C6: add(line) is a no-op (no slot, nor index, nor lookingIndex changes) when the trimmed
\* line equals the most recently written entry; otherwise exactly the slot at the write
\* cursor becomes the trimmed line, the write cursor advances by one modulo the capacity
\* and the browse cursor becomes the new write cursor.  (Before the first write the most
\* recently written entry is the empty text the constructor fills the slots with.)
C6_AddFrame ==
    [][call'.op = "add" =>
         LET t == TrimRight(call'.arg)
         IN  IF t = hist.lastWritten
             THEN array' = array
             ELSE /\ array'.strs = [array.strs EXCEPT ![array.index] = t]
                  /\ array'.index = (array.index + 1) % array.max_size
                  /\ array'.lookingIndex = array'.index
                  /\ array'.max_size = array.max_size
                  /\ array'.block_if_empty = array.block_if_empty]_vars

\* a writing add that wrapped the write cursor while the browse cursor was elsewhere,
\* in a buffer that has also seen a repeated line
C6_Witness ==
    /\ call.op = "add"
    /\ array.max_size = 2
    /\ array.index = 0
    /\ array.strs[1] = <<98>>
    /\ array.strs[0] = <<97>>
    /\ ~hist.clean
    /\ hist.lastWritten = <<98>>

-----------------------------------------------------------------------------
(* ParseSpec: a CommandParser on which one Command is registered and then   *)
(* processCommand is called with a line "name tok1 ... tokn", the tokens    *)
(* separated by single spaces.  A call on a Command reads nothing an        *)
(* earlier call left (commandArgs is cleared, the response overwritten),    *)
(* so a behaviour makes one.  call records the call, its tokens, what it    *)
(* returned and the callbacks it invoked.                                   *)

\* the longest type signature registered
MaxSig == 3
\* the most tokens a line supplies after the name
MaxToks == 3

\* the name registered: "Ab", stored as "ab"
ParseName == <<65, 98>>

\* the tokens: 1  -2  ab  "a"
ParseTokens == {<<49>>, <<45, 50>>, <<97, 98>>, <<QUOTE, 97, QUOTE>>}

SeqsUpTo(S, n) == UNION {[1..k -> S] : k \in 0..n}

RECURSIVE JoinTokens(_, _)
JoinTokens(toks, k) ==
    IF k > Len(toks) THEN <<>> ELSE <<SP>> \o toks[k] \o JoinTokens(toks, k + 1)

\* "name tok1 ... tokn"
BuildLine(name, toks) == name \o JoinTokens(toks, 1)

ParseInit ==
    /\ array = RoundArray(DefaultMaxSize, TRUE)
    /\ stateMachine = IdleStateMachine
    /\ id = UnknownTerminal
    /\ parser = EmptyParser
    /\ cells = <<>>
    /\ cmd = <<>>
    /\ cursor = 0
    /\ response = NoResponse
    /\ call = NoCall
    /\ hist = NoHist
    /\ trace = <<>>

ParseFrame == UNCHANGED <<array, stateMachine, id, cmd, cursor, hist, trace>>

ParseRegister(name, argTypes) ==
    /\ parser.commandDefinitions = <<>>
    /\ LET r == registerCommand(parser, name, argTypes)
       IN  /\ parser' = r.parser
           /\ call' = [op |-> "registerCommand", arg |-> name, toks |-> <<>>,
                       ret |-> r.ret, log |-> <<>>]
    /\ UNCHANGED <<cells, response>>
    /\ ParseFrame

ParseProcess(name, toks) ==
    /\ parser.commandDefinitions # <<>>
    /\ call.op = "registerCommand"
    /\ \E o \in processCommand(parser, cells, BuildLine(name, toks), response) :
          /\ parser' = o.parser
          /\ cells' = o.cells
          /\ response' = o.response
          /\ call' = [op |-> "processCommand", arg |-> BuildLine(name, toks), toks |-> toks,
                      ret |-> o.ret, log |-> o.log]
    /\ ParseFrame

ParseNext ==
    \/ \E argTypes \in SeqsUpTo(TypeCodes, MaxSig) : ParseRegister(ParseName, argTypes)
    \/ \E toks \in SeqsUpTo(ParseTokens, MaxToks) : ParseProcess(ParseName, toks)

ParseSpec == ParseInit /\ [][ParseNext]_vars

(* Well-formed literals, as section 4.3 of the specification words them *)

AllDigits(tok, from) == from <= Len(tok) /\ \A k \in from..Len(tok) : isdigit(tok[k])

IsUnsignedLiteral(tok) == AllDigits(tok, 1) /\ DigitsValue(tok, 0, Len(tok)) <= UIntMax

IsSignedLiteral(tok) ==
    \/ AllDigits(tok, 1) /\ DigitsValue(tok, 0, Len(tok)) <= SIntMax
    \/ /\ Len(tok) >= 2 /\ tok[1] \in {43, 45} /\ AllDigits(tok, 2)
       /\ DigitsValue(tok, 1, Len(tok)) <= SIntMax

IsDoubleLiteral(tok) ==
    LET body == IF Len(tok) >= 1 /\ tok[1] \in {43, 45} THEN Tail(tok) ELSE tok
        dot  == find_first_of(body, {46})
    IN  IF dot = npos THEN AllDigits(body, 1)
        ELSE /\ dot >= 1 /\ \A k \in 1..dot : isdigit(body[k])
             /\ AllDigits(body, dot + 2)

IsStringLiteral(tok) ==
    \/ /\ Len(tok) >= 2 /\ tok[1] = QUOTE /\ tok[Len(tok)] = QUOTE
       /\ \A k \in 2..(Len(tok) - 1) : tok[k] # QUOTE
    \/ /\ Len(tok) >= 1 /\ tok[1] # QUOTE
       /\ \A k \in 1..Len(tok) : ~isspace(tok[k])

WellFormed(tok, code) ==
    CASE code = 100 -> IsDoubleLiteral(tok)
      [] code = 117 -> IsUnsignedLiteral(tok)
      [] code = 105 -> IsSignedLiteral(tok)
      [] code = 115 -> IsStringLiteral(tok)
      [] OTHER -> FALSE

TagOf(code) ==
    CASE code = 100 -> "double"
      [] code = 117 -> "uint64_t"
      [] code = 105 -> "int64_t"
      [] code = 115 -> "string"
      [] OTHER -> "none"

\* the signature without its optional markers
SelectTypes(argTypes) == SelectSeq(argTypes, LAMBDA c : c # 111)

\* the number of type codes before the first optional marker
Required(argTypes) ==
    LET o == find_first_of(argTypes, {111}) IN IF o = npos THEN Len(argTypes) ELSE o

\* the handler ran exactly once, with n present arguments of the declared tags followed
\* by absent ones for the rest of types, and its text is the response
HandlerRanWith(types, n) ==
    /\ call.ret = TRUE
    /\ Len(call.log) = 1
    /\ call.log[1].kind = "command"
    /\ call.log[1].name = parser.commandDefinitions[1].name
    /\ Len(call.log[1].args) = Len(types)
    /\ \A k \in 1..Len(types) :
          IF k <= n
          THEN call.log[1].args[k].present /\ call.log[1].args[k].tag = TagOf(types[k])
          ELSE ~call.log[1].args[k].present
    /\ response = CommandCallback(call.log[1].name, call.log[1].args)

\* C1: for a Command with a signature over {d,u,i,s} and a line of well-formed tokens of
\* the matching types separated by single spaces, processCommand returns success, invokes
\* the handler exactly once with n present Arguments tagged T1..Tn in order, and the
\* response is the handler's string.
C1_WellFormedLineRunsHandler ==
    LET argTypes == parser.commandDefinitions[1].argTypes
    IN  (/\ call.op = "processCommand"
         /\ 111 \notin {argTypes[k] : k \in 1..Len(argTypes)}
         /\ Len(call.toks) = Len(argTypes)
         /\ \A k \in 1..Len(argTypes) : WellFormed(call.toks[k], argTypes[k]))
            => HandlerRanWith(argTypes, Len(argTypes))

\* C2: for a signature with the optional marker, a line with well-formed tokens for every
\* position before the marker and for a prefix of those after it makes processCommand
\* succeed and invoke the handler with one Argument per non-'o' code: the supplied ones
\* present with the declared tag, the rest absent.
C2_OptionalTailAbsent ==
    LET argTypes == parser.commandDefinitions[1].argTypes
        types    == SelectTypes(argTypes)
    IN  (/\ call.op = "processCommand"
         /\ 111 \in {argTypes[k] : k \in 1..Len(argTypes)}
         /\ Len(call.toks) >= Required(argTypes)
         /\ Len(call.toks) <= Len(types)
         /\ \A k \in 1..Len(call.toks) : WellFormed(call.toks[k], types[k]))
            => HandlerRanWith(types, Len(call.toks))

\* a token that leaves its separator in the tail: a double, or a quoted string
LeavesSeparator(tok, code) == code = 100 \/ (code = 115 /\ tok[1] = QUOTE)

\* no token that leaves its separator is followed by a token of a type that does not
\* skip leading white space (only the double parser does)
SeparatorsConsumed(toks, types) ==
    \A k \in 1..(Len(toks) - 1) : LeavesSeparator(toks[k], types[k]) => types[k + 1] = 100

-----------------------------------------------------------------------------
(* MathSpec: a CommandParser on which one MathCommand is registered, bound  *)
(* to a variable of type double or int16_t, and processCommand is called    *)
(* with lines "name", "name verb" and "name verb value".  call records the  *)
(* line, its tokens, the bound variables before the call, what the call     *)
(* returned and the callbacks it invoked.                                   *)

\* processCommand is called while the bound variable's numerator and denominator are at
\* most this (the quotients of integers grow without bound otherwise)
MaxMag == 10

\* the name registered: "G", stored as "g"
MathName == <<71>>

\* the variable the MathCommand is bound to, as the application declared it
MathCells ==
    {<<[T |-> "double", v |-> DInt(10)]>>, <<[T |-> "double", v |-> Fin(-1, 5, 2)]>>,
     <<[T |-> "int16_t", v |-> DInt(10)]>>, <<[T |-> "int16_t", v |-> DInt(-7)]>>}

\* add sub mult div mod pow set, and mul, which is no verb
MathVerbs == {mathOP_names[k] : k \in 1..7} \cup {<<109, 117, 108>>}

\* 0  2  -3  and x, which is no number
MathValues == {<<48>>, <<50>>, <<45, 51>>, <<120>>}

MathToks == {<<>>} \cup {<<v>> : v \in MathVerbs} \cup {<<v, x>> : v \in MathVerbs, x \in MathValues}

Small(d) == d.k = "fin" => (d.n <= MaxMag /\ d.d <= MaxMag)

MathInit ==
    /\ array = RoundArray(DefaultMaxSize, TRUE)
    /\ stateMachine = IdleStateMachine
    /\ id = UnknownTerminal
    /\ parser = EmptyParser
    /\ cells \in MathCells
    /\ cmd = <<>>
    /\ cursor = 0
    /\ response = NoResponse
    /\ call = NoCall
    /\ hist = NoHist
    /\ trace = <<>>

MathRegister(name) ==
    /\ parser.mathCommandDefinition = <<>>
    /\ LET r == registerMathCommand(parser, name, 1)
       IN  /\ parser' = r.parser
           /\ call' = [op |-> "registerMathCommand", arg |-> name, toks |-> <<>>,
                       pre |-> cells, ret |-> r.ret, log |-> <<>>]
    /\ UNCHANGED <<cells, response>>
    /\ ParseFrame

MathProcess(name, toks) ==
    /\ parser.mathCommandDefinition # <<>>
    /\ Small(cells[1].v)
    /\ \E o \in processCommand(parser, cells, BuildLine(name, toks), response) :
          /\ parser' = o.parser
          /\ cells' = o.cells
          /\ response' = o.response
          /\ call' = [op |-> "processCommand", arg |-> BuildLine(name, toks), toks |-> toks,
                      pre |-> cells, ret |-> o.ret, log |-> o.log]
    /\ ParseFrame

MathNext ==
    \/ MathRegister(MathName)
    \/ \E toks \in MathToks : MathProcess(MathName, toks)

MathSpec == MathInit /\ [][MathNext]_vars

\* the number a decimal integer token writes
NumeralValue(tok) ==
    IF tok[1] = 45 THEN DNeg(DInt(DigitsValue(tok, 1, Len(tok))))
    ELSE DInt(DigitsValue(tok, 0, Len(tok)))

IsNumeral(tok) == IsSignedLiteral(tok)

\* v combined with x by the operation the verb names
Combined(verb, v, x) ==
    CASE verb = <<97, 100, 100>>      -> DAdd(v, x)
      [] verb = <<115, 117, 98>>      -> DSub(v, x)
      [] verb = <<109, 117, 108, 116>> -> DMul(v, x)
      [] verb = <<100, 105, 118>>     -> DDiv(v, x)
      [] verb = <<109, 111, 100>>     -> DFmod(v, x)
      [] verb = <<112, 111, 119>>     -> DPow(v, x)
      [] verb = <<115, 101, 116>>     -> x

OperatorOf(verb) ==
    CASE verb = <<97, 100, 100>>      -> ADD
      [] verb = <<115, 117, 98>>      -> SUB
      [] verb = <<109, 117, 108, 116>> -> MUL
      [] verb = <<100, 105, 118>>     -> DIV
      [] verb = <<109, 111, 100>>     -> MOD
      [] verb = <<112, 111, 119>>     -> POW
      [] verb = <<115, 101, 116>>     -> SET

IsVerb(verb) == \E k \in 1..7 : verb = mathOP_names[k]

\* the call was "name verb x" with a verb of the seven and a number x
VerbCall ==
    /\ call.op = "processCommand"
    /\ Len(call.toks) = 2
    /\ IsVerb(call.toks[1])
    /\ IsNumeral(call.toks[2])

\* the callback ran exactly once, with the variable's value after the call and op
CallbackRanWith(op) ==
    /\ call.ret = TRUE
    /\ call.log = <<MathCall(parser.mathCommandDefinition[1].name, cells[1].v, op)>>
    /\ response = MathCallback(parser.mathCommandDefinition[1].name, cells[1].v, op)

\* "name" alone: the callback gets the current value and EMPTY, the variable is unchanged
QueryLeavesValue ==
    (call.op = "processCommand" /\ call.toks = <<>>)
        => (CallbackRanWith(EMPTY) /\ cells = call.pre)

\* the value is finite and its integer part is an int16_t
FitsInt(d) ==
    d.k = "fin" /\ d.s * (d.n \div d.d) >= IntMin /\ d.s * (d.n \div d.d) <= IntMax

\* d with its fraction dropped, as an int16_t holds it (zero has no sign there)
Truncated(d) == IF d.n \div d.d = 0 THEN Zero(1) ELSE Fin(d.s, d.n \div d.d, 1)

\* C3 as stated: 'name verb x' sets the variable to v combined with x by the verb's
\* operation (set: to x), invokes the callback exactly once with the post-update value and
\* the matching Operator and returns success; 'name' alone invokes the callback with the
\* current value and Operator empty and leaves the variable unchanged.  (Stated for the
\* results the conversion to the variable's type is defined for.)
C3_VerbSetsCombinedValue ==
    /\ (VerbCall /\ FitsInt(Combined(call.toks[1], call.pre[1].v, NumeralValue(call.toks[2]))))
          => /\ CallbackRanWith(OperatorOf(call.toks[1]))
             /\ cells[1].v = Combined(call.toks[1], call.pre[1].v, NumeralValue(call.toks[2]))
    /\ QueryLeavesValue

\* C3 amended: 'name verb x' sets the variable to v combined with x by the verb's
\* operation converted to the variable's own type: that very value for a double variable,
\* the value truncated toward zero for an integer variable (when it is finite and in the
\* type's range); the callback is invoked exactly once with the post-update value and the
\* matching Operator and the call returns success; 'name' alone invokes the callback
\* with the current value and Operator empty and leaves the variable unchanged.
C3_VerbSetsConvertedValue ==
    /\ VerbCall =>
          LET r == Combined(call.toks[1], call.pre[1].v, NumeralValue(call.toks[2]))
          IN  /\ CallbackRanWith(OperatorOf(call.toks[1]))
              /\ cells[1].T = "double" => cells[1].v = r
              /\ (cells[1].T = "int16_t" /\ FitsInt(r)) => cells[1].v = Truncated(r)
    /\ QueryLeavesValue

\* "G div -3" on the int16_t variable holding 10 left -3 in it
C3_Witness ==
    /\ VerbCall
    /\ call.toks = << <<100, 105, 118>>, <<45, 51>> >>
    /\ call.pre[1] = [T |-> "int16_t", v |-> DInt(10)]
    /\ cells[1].v = DInt(-3)
    /\ call.ret = TRUE

\* C4: a MathCommand line that is rejected (unrecognized verb, verb with no value, value
\* that is no number) returns the failure flag with a non-empty message, invokes no
\* callback and leaves the bound variable at its prior value.
C4_RejectedLineChangesNothing ==
    call.op = "processCommand" =>
        /\ (\/ Len(call.toks) = 1
            \/ (Len(call.toks) = 2 /\ (~IsVerb(call.toks[1]) \/ ~IsNumeral(call.toks[2]))))
              => call.ret = FALSE
        /\ call.ret = FALSE =>
              /\ response # NoResponse
              /\ response.msg # ""
              /\ call.log = <<>>
              /\ cells = call.pre
              /\ parser.mathCommandDefinition # <<>>

\* "G mul 2", an unrecognized verb with a good value, was rejected after an update
C4_Witness ==
    /\ call.op = "processCommand"
    /\ call.toks = << <<109, 117, 108>>, <<50>> >>
    /\ call.ret = FALSE
    /\ response = [msg |-> "Unknown operator ! ", ext |-> <<109, 117, 108>>]
    /\ cells[1].v = DInt(8)

-----------------------------------------------------------------------------
(* The line editor: a CommandLineHandler on a parser the application has    *)
(* registered its commands on, fed the bytes of the stream one at a time.   *)
(* trace counts the bytes read (n) and keeps what the last three turns did  *)
(* (steps).  EscSpec, ModeSpec and TabSpec differ in the bytes the terminal *)
(* sends and in the commands registered.                                    *)

\* the bytes a session reads
MaxBytes == 5

NoTrace == [n |-> 0, steps |-> <<>>]

Handler == [cmd |-> cmd, cursor |-> cursor, array |-> array, stateMachine |-> stateMachine,
            id |-> id, parser |-> parser, cells |-> cells, response |-> response,
            info |-> Info(0, <<>>, <<>>, <<>>, "", <<>>)]

EditorInit(p, cl) ==
    /\ array = RoundArray(DefaultMaxSize, TRUE)
    /\ stateMachine = IdleStateMachine
    /\ id = UnknownTerminal
    /\ parser = p
    /\ cells = cl
    /\ cmd = <<>>
    /\ cursor = 0
    /\ response = NoResponse
    /\ call = NoCall
    /\ hist = NoHist
    /\ trace = NoTrace

handle_commandline(c) ==
    /\ trace.n < MaxBytes
    /\ \E h \in handle_byte(Handler, c) :
          /\ cmd' = h.cmd
          /\ cursor' = h.cursor
          /\ array' = h.array
          /\ stateMachine' = h.stateMachine
          /\ id' = h.id
          /\ parser' = h.parser
          /\ cells' = h.cells
          /\ response' = h.response
          /\ trace' = [n |-> trace.n + 1, steps |-> KeepLast(Append(trace.steps, h.info), 3)]
    /\ UNCHANGED <<call, hist>>

\* the parser of EscSpec and ModeSpec: the Command "a" without arguments
KeyParser == registerCommand(EmptyParser, <<97>>, <<>>).parser

\* ESC [ A B C D a CR
EscBytes == {ESC, LBRACKET, UP_LAST_CHAR, DOWN_LAST_CHAR, RIGHT_LAST_CHAR, LEFT_LAST_CHAR, 97, CR}

EscNext == \E c \in EscBytes : handle_commandline(c)
EscSpec == EditorInit(KeyParser, <<>>) /\ [][EscNext]_vars

\* the last three bytes read were b1, b2, b3
LastThree(b1, b2, b3) ==
    /\ Len(trace.steps) = 3
    /\ trace.steps[1].c = b1 /\ trace.steps[2].c = b2 /\ trace.steps[3].c = b3

\* C7: fed ESC '[' 'A' from any state of the editor, the recognizer invokes the bound Up
\* action exactly once and no other action, returns no pass-through bytes, none of the
\* three bytes is inserted into the edit buffer (it is what it was, or the history entry
\* Up or Down recalled), and the recognizer is idle afterwards; likewise for B, C and D.
C7_ArrowSequenceConsumed ==
    \A x \in BoundLetters :
        LastThree(ESC, LBRACKET, x) =>
            /\ trace.steps[1].fired = <<>>
            /\ trace.steps[2].fired = <<>>
            /\ trace.steps[3].fired = <<x>>
            /\ \A k \in 1..3 : trace.steps[k].pass = <<>> /\ trace.steps[k].branch # "insert"
            /\ \/ cmd = trace.steps[1].cmd0
               \/ x \in {UP_LAST_CHAR, DOWN_LAST_CHAR} /\ cmd = Looking(array) /\ cmd # <<>>
            /\ stateMachine = IdleStateMachine

\* ESC [ A read with an empty edit buffer and "a" in the history: Up recalled "a"
C7_Witness ==
    /\ LastThree(ESC, LBRACKET, UP_LAST_CHAR)
    /\ trace.steps[1].cmd0 = <<>>
    /\ trace.steps[3].fired = <<UP_LAST_CHAR>>
    /\ cmd = <<97>>
    /\ cursor = 1

\* C8: fed ESC and then a byte that is not '[', the recognizer invokes no action, returns
\* to idle, and returns that single byte as pass-through, so that the caller treats it as
\* ordinary input.
C8_NonBracketPassedThrough ==
    (/\ Len(trace.steps) >= 2
     /\ trace.steps[Len(trace.steps) - 1].c = ESC
     /\ Last(trace.steps).c \notin {ESC, LBRACKET})
        => /\ Last(trace.steps).fired = <<>>
           /\ stateMachine = IdleStateMachine
           /\ Last(trace.steps).pass = <<Last(trace.steps).c>>
           /\ Last(trace.steps).branch = "insert"

-----------------------------------------------------------------------------
(* ModeSpec: the terminal sends line terminators, keys and a letter *)

\* CR LF ESC [ TAB BS a
ModeBytes == {CR, LF, ESC, LBRACKET, TAB, BS, 97}

ModeNext == \E c \in ModeBytes : handle_commandline(c)
ModeSpec == EditorInit(KeyParser, <<>>) /\ [][ModeNext]_vars

\* C10: once the line-ending mode has been fixed to LF, CR or CRLF it never changes
\* again, whatever bytes arrive afterwards.
C10_ModeFixedForGood ==
    [][id.identified => (id'.identified /\ id'.type = id.type)]_vars

\* a session fixed to CRLF by its first two bytes that then read a lone CR and a LF
C10_Witness ==
    /\ id.identified
    /\ id.type = TERMINAL_END_LINE_WITH_BOTH
    /\ trace.n >= 4
    /\ LastThree(LF, CR, LF)

-----------------------------------------------------------------------------
(* TabSpec: the Commands "aba" and "abb" and the MathCommand "b" are        *)
(* registered; the terminal sends letters, spaces, Tab, ESC and '['.        *)

TabParser ==
    registerMathCommand(
        registerCommand(registerCommand(EmptyParser, <<97, 98, 97>>, <<>>).parser,
                        <<97, 98, 98>>, <<>>).parser,
        <<98>>, 1).parser

\* TAB a b s A space ESC [
TabBytes == {TAB, 97, 98, 115, 65, SP, ESC, LBRACKET}

TabNext == \E c \in TabBytes : handle_commandline(c)
TabSpec == EditorInit(TabParser, <<[T |-> "double", v |-> DInt(10)]>>) /\ [][TabNext]_vars

\* this step reads a Tab that reaches the key handlers (the recognizer is idle or has
\* buffered '[')
TabRead ==
    /\ trace'.n = trace.n + 1
    /\ Last(trace'.steps).c = TAB
    /\ stateMachine.started => stateMachine.chars = <<LBRACKET>>

\* the registered names, Commands first, each with the suffix completion gives it
AllNames(cmdSuffix, mathSuffix) ==
    [k \in 1..(Len(parser.commandDefinitions) + Len(parser.mathCommandDefinition)) |->
        IF k <= Len(parser.commandDefinitions)
        THEN parser.commandDefinitions[k].name \o cmdSuffix
        ELSE parser.mathCommandDefinition[k - Len(parser.commandDefinitions)].name \o mathSuffix]

\* the longest text every one of strs starts with
IsLongestCommonPrefix(q, strs) ==
    /\ \A k \in 1..Len(strs) : StartsWith(strs[k], q)
    /\ \/ \E k \in 1..Len(strs) : strs[k] = q
       \/ \E j, k \in 1..Len(strs) : strs[j][Len(q) + 1] # strs[k][Len(q) + 1]

\* the buffer becomes text, the cursor at its end
BufferBecomes(text) == cmd' = text /\ cursor' = Len(text)

\* Tab leaves the buffer as given for prefix, among names: the one match, the longest
\* common prefix of several, or nothing new when there is none and no verb completes
Completes(prefix, names) ==
    LET M == SelectSeq(names, LAMBDA nm : StartsWith(nm, prefix))
    IN  /\ Len(M) = 1 => BufferBecomes(M[1])
        /\ Len(M) > 1 => (IsLongestCommonPrefix(cmd', M) /\ cursor' = Len(cmd'))
        /\ (Len(M) = 0 /\ VerbCompletions(parser, ToLowerStr(cmd)) = <<>>)
              => (cmd' = cmd /\ cursor' = cursor)

-----------------------------------------------------------------------------
(* Submission under a fixed line-ending mode (ModeSpec)                     *)

\* this step reads one byte
ByteRead == trace'.n = trace.n + 1

\* the byte this step reads and whether the step submitted a line
ByteNow == Last(trace'.steps).c
SubmittedNow == Last(trace'.steps).submitted # <<>>

\* the byte this step reads is not taken by the recognizer: it is not ESC and does not
\* directly follow ESC
ReachesKeys ==
    /\ ByteNow # ESC
    /\ stateMachine.started => stateMachine.chars = <<LBRACKET>>

-----------------------------------------------------------------------------
(* RegSpec: the application registers and removes Commands and MathCommands *)
(* under the names "a", "A" and "b" and processes lines; every MathCommand  *)
(* is bound to the one variable, a double holding 10.                       *)

\* the entries a handler set holds
MaxDefs == 2

\* "a", "A", "b"
RegNames == {<<97>>, <<65>>, <<98>>}

\* the signatures "", "d", "x", "dx"
RegSigs == {<<>>, <<100>>, <<120>>, <<100, 120>>}

\* "a", "A 1", "b", "a set 2"
RegLines == {<<97>>, <<65, SP, 49>>, <<98>>, <<97, SP, 115, 101, 116, SP, 50>>}

RegInit ==
    /\ array = RoundArray(DefaultMaxSize, TRUE)
    /\ stateMachine = IdleStateMachine
    /\ id = UnknownTerminal
    /\ parser = EmptyParser
    /\ cells = <<[T |-> "double", v |-> DInt(10)]>>
    /\ cmd = <<>>
    /\ cursor = 0
    /\ response = NoResponse
    /\ call = NoCall
    /\ hist = NoHist
    /\ trace = <<>>

\* a call on the parser that returned r
RegCall(op, name, argTypes, r) ==
    /\ parser' = r.parser
    /\ call' = [op |-> op, arg |-> name, toks |-> argTypes, ret |-> r.ret, log |-> <<>>]
    /\ UNCHANGED <<cells, response>>
    /\ ParseFrame

RegRegister(name, argTypes) ==
    /\ Len(parser.commandDefinitions) < MaxDefs
    /\ RegCall("registerCommand", name, argTypes, registerCommand(parser, name, argTypes))

RegRegisterMath(name) ==
    /\ Len(parser.mathCommandDefinition) < MaxDefs
    /\ RegCall("registerMathCommand", name, <<>>, registerMathCommand(parser, name, 1))

RegRemove(name) == RegCall("removeCommand", name, <<>>, removeCommand(parser, name))

RegRemoveMath(name) == RegCall("removeMathCommand", name, <<>>, removeMathCommand(parser, name))

RegProcess(line) ==
    \E o \in processCommand(parser, cells, line, response) :
        /\ parser' = o.parser
        /\ cells' = o.cells
        /\ response' = o.response
        /\ call' = [op |-> "processCommand", arg |-> line, toks |-> <<>>,
                    ret |-> o.ret, log |-> o.log]
        /\ ParseFrame

RegNext ==
    \/ \E name \in RegNames, argTypes \in RegSigs : RegRegister(name, argTypes)
    \/ \E name \in RegNames : RegRegisterMath(name)
    \/ \E name \in RegNames : RegRemove(name)
    \/ \E name \in RegNames : RegRemoveMath(name)
    \/ \E line \in RegLines : RegProcess(line)

RegSpec == RegInit /\ [][RegNext]_vars

\* str with its upper-case letters replaced by the lower-case ones
Lowered(str) == [k \in 1..Len(str) |-> IF str[k] \in 65..90 THEN str[k] + 32 ELSE str[k]]

\* C12: registerCommand returns false and leaves both handler sets unchanged when the
\* signature has a character outside d, u, i, s, o; otherwise it returns true and appends
\* exactly one Command, whose name is the given name in lower case.
C12_RegisterChecksSignature ==
    [][call'.op = "registerCommand" =>
         IF \E k \in 1..Len(call'.toks) : call'.toks[k] \notin {100, 117, 105, 115, 111}
         THEN /\ ~call'.ret
              /\ parser'.commandDefinitions = parser.commandDefinitions
              /\ parser'.mathCommandDefinition = parser.mathCommandDefinition
         ELSE /\ call'.ret
              /\ Len(parser'.commandDefinitions) = Len(parser.commandDefinitions) + 1
              /\ SubSeq(parser'.commandDefinitions, 1, Len(parser.commandDefinitions))
                    = parser.commandDefinitions
              /\ Last(parser'.commandDefinitions).name = Lowered(call'.arg)
              /\ Last(parser'.commandDefinitions).argTypes = call'.toks
              /\ parser'.mathCommandDefinition = parser.mathCommandDefinition]_vars

\* registerCommand("A", "dx") returned false after registerCommand("A", "d") had
\* registered "a"
C12_Witness ==
    /\ call.op = "registerCommand" /\ call.arg = <<65>> /\ call.toks = <<100, 120>>
    /\ ~call.ret
    /\ parser.commandDefinitions = <<Command(<<97>>, <<100>>)>>

\* defs has an entry of this name
Registered(defs, name) == \E k \in 1..Len(defs) : defs[k].name = name

\* the first token of a line that starts with it, in lower case
NameOf(line) ==
    LET S == {k \in 1..Len(line) : line[k] = SP}
    IN  Lowered(IF S = {} THEN line ELSE SubSeq(line, 1, SetMin(S) - 1))

\* C14: processCommand looks the first token up in the Command set first and in the
\* MathCommand set second: a name in both sets runs only the Command path (no MathCommand
\* callback, bound variable untouched); a name in neither set fails with the
\* unknown-command message and invokes no handler.
C14_CommandSetFirst ==
    [][call'.op = "processCommand" =>
         LET name == NameOf(call'.arg)
         IN  /\ Registered(parser.commandDefinitions, name)
                  => /\ \A k \in 1..Len(call'.log) : call'.log[k].kind = "command"
                     /\ cells' = cells
             /\ (/\ ~Registered(parser.commandDefinitions, name)
                 /\ Registered(parser.mathCommandDefinition, name))
                  => \A k \in 1..Len(call'.log) : call'.log[k].kind = "math"
             /\ (/\ ~Registered(parser.commandDefinitions, name)
                 /\ ~Registered(parser.mathCommandDefinition, name))
                  => /\ ~call'.ret
                     /\ response'.msg = "Error: Unknown command."
                     /\ call'.log = <<>>]_vars

\* "a" is a Command and a MathCommand; the line "a" ran the Command's handler alone
C14_Witness ==
    /\ call.op = "processCommand" /\ call.arg = <<97>>
    /\ Registered(parser.commandDefinitions, <<97>>)
    /\ Registered(parser.mathCommandDefinition, <<97>>)
    /\ call.ret
    /\ Len(call.log) = 1 /\ call.log[1].kind = "command"
    /\ cells[1].v = DInt(10)

\* C16: after any registerCommand and removeCommand calls no two Commands have the same
\* name, likewise for the MathCommands, so that after removeCommand(name) returned true
\* the name resolves to no Command.
C16_NamesUnique ==
    /\ \A j, k \in 1..Len(parser.commandDefinitions) :
          j # k => parser.commandDefinitions[j].name # parser.commandDefinitions[k].name
    /\ \A j, k \in 1..Len(parser.mathCommandDefinition) :
          j # k => parser.mathCommandDefinition[j].name # parser.mathCommandDefinition[k].name
    /\ (call.op = "removeCommand" /\ call.ret)
          => ~Registered(parser.commandDefinitions, Lowered(call.arg))

-----------------------------------------------------------------------------
(* IntSpec: strToInt is handed prefixed literals of values in and around    *)
(* the ranges of the unsigned and the signed type, as the u and i           *)
(* positions of processCommand call it.                                     *)

\* the character of the digit d; upper chooses A..F over a..f
DigitChar(d, upper) == IF d < 10 THEN 48 + d ELSE (IF upper THEN 65 ELSE 97) + d - 10

\* the digits of n >= 0 in the base, most significant first
RECURSIVE ToDigits(_, _, _)
ToDigits(n, base, upper) ==
    IF n < base THEN <<DigitChar(n, upper)>>
    ELSE Append(ToDigits(n \div base, base, upper), DigitChar(n % base, upper))

\* v formatted in base 2, 8 or 16: '-' when negative, the prefix 0b, 0o or 0x, the digits
Formatted(v, base, upper) ==
    (IF v < 0 THEN <<45>> ELSE <<>>)
        \o <<48, CASE base = 2 -> 98 [] base = 8 -> 111 [] OTHER -> 120>>
        \o ToDigits(Abs(v), base, upper)

\* the values formatted: from twice the signed minimum to twice the unsigned maximum
IntValues == (2 * SIntMin)..(2 * UIntMax + 1)

\* the limits of uint64_t and of int64_t
IntLimits == {<<0, UIntMax>>, <<SIntMin, SIntMax>>}

\* one call per behaviour
IntParse(lim, v, base, upper) ==
    LET r == strToInt(Formatted(v, base, upper), lim[1], lim[2])
    IN  /\ call = NoCall
        /\ call' = [op |-> "strToInt", arg |-> Formatted(v, base, upper),
                    toks |-> <<lim[1], lim[2], v>>, ret |-> r.bytesRead, log |-> r.value]
        /\ UNCHANGED <<parser, cells, response>>
        /\ ParseFrame

IntNext ==
    \E lim \in IntLimits, v \in IntValues, base \in {2, 8, 16}, upper \in BOOLEAN :
        IntParse(lim, v, base, upper)

IntSpec == ParseInit /\ [][IntNext]_vars

\* C13: every value within the range of the type, formatted in base 2, 8 or 16 with its
\* prefix (and '-' when negative), parses back to the same value and the whole literal is
\* consumed; every literal whose value is above the maximum or below the minimum is a
\* parse failure (0 bytes read), never a wrapped-around value.
C13_PrefixedRoundTrip ==
    call.op = "strToInt" =>
        IF call.toks[1] <= call.toks[3] /\ call.toks[3] <= call.toks[2]
        THEN call.ret = Len(call.arg) /\ call.log = call.toks[3]
        ELSE call.ret = 0

-----------------------------------------------------------------------------
(* EditSpec: the terminal sends a letter, Backspace, Tab, CR, the arrow     *)
(* keys Up, Right and Left byte by byte, and with them every other ESC      *)
(* sequence these bytes make.                                               *)

\* ESC [ A C D a BS TAB CR
EditBytes == {ESC, LBRACKET, UP_LAST_CHAR, RIGHT_LAST_CHAR, LEFT_LAST_CHAR, 97, BS, TAB, CR}

EditNext == \E c \in EditBytes : handle_commandline(c)
EditSpec == EditorInit(KeyParser, <<>>) /\ [][EditNext]_vars

\* C15: in every reachable state of the editor, after any sequence of input bytes, the
\* cursor offset is at least 0 and at most the length of the edit buffer.
C15_CursorWithinBuffer == 0 <= cursor /\ cursor <= Len(cmd)

\* "aa" typed and Left pressed: the cursor stands inside the buffer
C15_Witness ==
    /\ LastThree(ESC, LBRACKET, LEFT_LAST_CHAR)
    /\ cmd = <<97, 97>>
    /\ cursor = 1

-----------------------------------------------------------------------------
(* BrowseSpec: each call of handle_commandline finds the bytes of one key   *)
(* in the stream: a letter, CR, Up or Down.                                 *)

\* the loop of handle_commandline over the bytes bs available, from each handler of H
RECURSIVE Feed(_, _)
Feed(H, bs) ==
    IF bs = <<>> THEN H
    ELSE Feed(UNION {handle_byte(h, Head(bs)) : h \in H}, Tail(bs))

\* a b CR Up Down
BrowseKeys ==
    {<<97>>, <<98>>, <<CR>>, <<ESC, LBRACKET, UP_LAST_CHAR>>, <<ESC, LBRACKET, DOWN_LAST_CHAR>>}

\* handle_commandline with the bytes bs available; the trace takes the last byte's turn
KeyStroke(bs) ==
    /\ trace.n < MaxBytes
    /\ \E h \in Feed({Handler}, bs) :
          /\ cmd' = h.cmd
          /\ cursor' = h.cursor
          /\ array' = h.array
          /\ stateMachine' = h.stateMachine
          /\ id' = h.id
          /\ parser' = h.parser
          /\ cells' = h.cells
          /\ response' = h.response
          /\ trace' = [n |-> trace.n + 1, steps |-> KeepLast(Append(trace.steps, h.info), 3)]
    /\ UNCHANGED <<call, hist>>

BrowseNext == \E bs \in BrowseKeys : KeyStroke(bs)
BrowseSpec == EditorInit(KeyParser, <<>>) /\ [][BrowseNext]_vars

\* C19: after every line submission, also of a line identical to the previous one and
\* after browsing the history with Up and Down, the history's browse cursor equals its
\* write cursor.
C19_SubmissionResetsBrowse ==
    [][(ByteRead /\ SubmittedNow) => array'.lookingIndex = array'.index]_vars

-----------------------------------------------------------------------------
(* Browsing with block_if_empty (HistSpec)                                  *)

\* C20: with block_if_empty set and at least one non-empty entry stored, after any go_up
\* or go_down, in any interleaving of add, go_up and go_down, the browse cursor is on a
\* non-empty slot and the text returned is non-empty.
C20_BrowseLandsOnEntry ==
    (/\ array.block_if_empty
     /\ \E i \in 0..(array.max_size - 1) : array.strs[i] # <<>>
     /\ call.op \in {"go_up", "go_down"})
        => /\ array.strs[array.lookingIndex] # <<>>
           /\ call.ret # <<>>

-----------------------------------------------------------------------------
(* StrSpec: the Command "ab" is registered with string positions and one    *)
(* line of string tokens, some with upper-case letters, is processed.       *)

\* the signatures "s", "ss", "sos"
StrSigs == {<<115>>, <<115, 115>>, <<115, 111, 115>>}

\* the tokens ab, Ab, B, cD, "A b", "a"
StrTokens == {<<97, 98>>, <<65, 98>>, <<66>>, <<99, 68>>,
              <<QUOTE, 65, SP, 98, QUOTE>>, <<QUOTE, 97, QUOTE>>}

StrNext ==
    \/ \E argTypes \in StrSigs : ParseRegister(ParseName, argTypes)
    \/ \E toks \in SeqsUpTo(StrTokens, MaxToks) : ParseProcess(ParseName, toks)

StrSpec == ParseInit /\ [][StrNext]_vars

\* the characters of a string token: what stands between the quotes of a quoted one
Content(tok) == IF tok[1] = QUOTE THEN SubSeq(tok, 2, Len(tok) - 1) ELSE tok

\* C17: the text a string position delivers to the handler is the characters of the
\* token exactly as they appear in the submitted line, upper-case letters included.
C17_StringKeepsCase ==
    (call.op = "processCommand" /\ call.log # <<>>)
        => \A k \in 1..Len(call.toks) :
              (k <= Len(call.log[1].args) /\ call.log[1].args[k].present)
                  => call.log[1].args[k].s = Content(call.toks[k])

-----------------------------------------------------------------------------
(* The byte after the first CR (ModeSpec)                                   *)

\* C18: when the first terminator of the session is a bare CR, the very next byte
\* received decides the mode, whatever it is: LF fixes CRLF-mode and any other byte, Tab,
\* Backspace and ESC included, fixes CR-mode.
C18_NextByteDecides ==
    [][(ByteRead /\ id.identifying) =>
         /\ id'.identified
         /\ id'.type = IF ByteNow = LF THEN TERMINAL_END_LINE_WITH_BOTH
                       ELSE TERMINAL_END_LINE_WITH_CARRIAGE_RETURN]_vars

-----------------------------------------------------------------------------
(* Text after the last position (ParseSpec)                                 *)

\* C21: for a registered Command, when a token has been consumed for every position of
\* the signature (each position has a well-formed token that its parser reaches) and
\* further tokens remain in the tail, processCommand returns failure with the
\* too-many-arguments message and does not invoke the handler.
C21_ExtraTextRejected ==
    LET types == SelectTypes(parser.commandDefinitions[1].argTypes)
    IN  (/\ call.op = "processCommand"
         /\ Len(call.toks) > Len(types)
         /\ \A k \in 1..Len(types) : WellFormed(call.toks[k], types[k])
         /\ SeparatorsConsumed(SubSeq(call.toks, 1, Len(types)), types))
            => /\ call.ret = FALSE
               /\ call.log = <<>>
               /\ response = Response("Error: Too many arguments provided.")

\* the signature "uos" and the line 'Ab 1 ab "a"': both positions took their token and
\* the quoted string was left over
C21_Witness ==
    /\ call.op = "processCommand"
    /\ parser.commandDefinitions[1].argTypes = <<117, 111, 115>>
    /\ call.toks = << <<49>>, <<97, 98>>, <<QUOTE, 97, QUOTE>> >>
    /\ call.ret = FALSE
    /\ response = Response("Error: Too many arguments provided.")

-----------------------------------------------------------------------------
(* TailSpec: the Command "ab" is registered with an integer first position  *)
(* and a line is processed whose first token may carry a letter directly    *)
(* after its digits.                                                        *)

\* the signatures "u", "i", "us", "is", "uu", "ii"
TailSigs == {<<117>>, <<105>>, <<117, 115>>, <<105, 115>>, <<117, 117>>, <<105, 105>>}

\* the tokens 1, 12x, -2y, 3z4, x
TailTokens == {<<49>>, <<49, 50, 120>>, <<45, 50, 121>>, <<51, 122, 52>>, <<120>>}

TailNext ==
    \/ \E argTypes \in TailSigs : ParseRegister(ParseName, argTypes)
    \/ \E toks \in SeqsUpTo(TailTokens, MaxToks) : ParseProcess(ParseName, toks)

TailSpec == ParseInit /\ [][TailNext]_vars

\* the length of the numeral a token starts with: an optional '-' and digits
NumeralLen(tok) ==
    LET S == {k \in 1..Len(tok) : ~isdigit(tok[k]) /\ ~(k = 1 /\ tok[1] = 45)}
    IN  IF S = {} THEN Len(tok) ELSE SetMin(S) - 1

\* C22: after an unsigned or signed integer token processCommand consumes at most one
\* following byte and only when it is whitespace: a non-whitespace byte directly after
\* the digits (as in 12x) stays in the tail, where the too-many-arguments check finds it
\* (signature u or i) or the next position reads it (signature us or is).
C22_SuffixStaysInTail ==
    LET argTypes == parser.commandDefinitions[1].argTypes
        tok      == call.toks[1]
        n        == NumeralLen(tok)
    IN  (/\ call.op = "processCommand"
         /\ Len(call.toks) = 1
         /\ argTypes[1] \in {117, 105}
         /\ n >= 1 /\ n < Len(tok)
         /\ WellFormed(SubSeq(tok, 1, n), argTypes[1]))
            => /\ Len(argTypes) = 1
                    => /\ call.ret = FALSE
                       /\ call.log = <<>>
                       /\ response = Response("Error: Too many arguments provided.")
               /\ (Len(argTypes) = 2 /\ argTypes[2] = 115)
                    => /\ HandlerRanWith(argTypes, 2)
                       /\ call.log[1].args[2].s = SubSeq(tok, n + 1, Len(tok))

-----------------------------------------------------------------------------
(* Recall into the edit buffer (BrowseSpec)                                 *)

\* this step read an Up or a Down arrow sequence
ArrowRead ==
    /\ ByteRead
    /\ Last(trace'.steps).fired \in {<<UP_LAST_CHAR>>, <<DOWN_LAST_CHAR>>}

\* C23 as stated: after an Up or Down arrow sequence the edit buffer equals the history
\* entry at the new browse position and the cursor equals the length of that text, for
\* every history content and browse position (an empty history and Down at the newest
\* position included).
C23_ArrowLoadsEntry ==
    [][ArrowRead => (cmd' = Looking(array') /\ cursor' = Len(cmd'))]_vars

\* C23 amended: after an Up or Down arrow sequence, when the history entry at the new
\* browse position is not empty the edit buffer equals it and the cursor equals its
\* length; when it is empty, edit buffer and cursor are unchanged.
C23_ArrowLoadsNonEmptyEntry ==
    [][ArrowRead =>
         IF Looking(array') # <<>>
         THEN cmd' = Looking(array') /\ cursor' = Len(cmd')
         ELSE cmd' = cmd /\ cursor' = cursor]_vars

\* "b" was in the edit buffer when Up replaced it by the entry "a"
C23_Witness ==
    /\ Len(trace.steps) >= 1
    /\ Last(trace.steps).fired = <<UP_LAST_CHAR>>
    /\ Last(trace.steps).cmd0 = <<98>>
    /\ cmd = <<97>> /\ cursor = 1
    /\ Looking(array) = <<97>>

-----------------------------------------------------------------------------
(* The submitted text (EditSpec)                                            *)

\* C24: on every submission the text passed to processCommand and to add equals, after
\* trimming trailing whitespace, the edit buffer as it was before the terminator arrived,
\* wherever the cursor stands, the middle of the line included.
C24_SubmitsBufferAsTyped ==
    (Len(trace.steps) >= 1 /\ Last(trace.steps).submitted # <<>>)
        => TrimRight(Last(trace.steps).submitted[1]) = TrimRight(Last(trace.steps).cmd0)

-----------------------------------------------------------------------------
(* Blank lines in the history (HistSpec)                                    *)

\* C25: add of a line that is empty after trimming trailing whitespace never changes the
\* history: no slot and no cursor changes, whatever entries are stored.
C25_BlankAddChangesNothing ==
    [][(call'.op = "add" /\ TrimRight(call'.arg) = <<>>) => array' = array]_vars

=============================================================================
